---- MODULE Spec2Model ----
(***************************************************************************)
(* Model of x/peggy/types/ethereum.go: the Ethereum address helpers, the   *)
(* PeggyDenom byte/string codec and the ERC20Token value type.             *)
(*                                                                         *)
(* Go strings and byte slices are sequences of bytes (0..255); string      *)
(* literals are written as their ASCII codes.  Arbitrary-precision         *)
(* integers (math/big, sdk.Int) are sign + magnitude, the magnitude a      *)
(* little-endian sequence of 16-bit limbs without leading zero limbs, so   *)
(* that 2^64 and 2^255 keep their exact width.                             *)
(***************************************************************************)
EXTENDS Integers, Sequences, FiniteSets, TLC

VARIABLES op, arg, ret, p, origin, tokenE, tokenO

vars == <<op, arg, ret, p, origin, tokenE, tokenO>>

(***************************************************************************)
(* Bounds of the model.                                                    *)
(***************************************************************************)
\* Lengths of the byte/hex inputs range over the exact length +/- MaxSlack.
MaxSlack == 1
\* Small amounts 0..MaxSmall are drawn beside the boundary amounts.
MaxSmall == 2
\* Amounts 2^64 - d (d in 1..MaxDelta) and 2^64 + d (d in 0..MaxDelta-1).
MaxDelta == 2

(***************************************************************************)
(* Constants of the file.                                                  *)
(***************************************************************************)
\* ModuleName = "peggy" is declared in the package's keys file.
ModuleName == <<112, 101, 103, 103, 121>>

PeggyDenomPrefix == ModuleName

PeggyDenomSeparator == <<>>

ETHContractAddressLen == 20

PeggyDenomLen == Len(PeggyDenomPrefix) + Len(PeggyDenomSeparator) + ETHContractAddressLen

\* go-ethereum common.AddressLength
AddressLength == 20

(***************************************************************************)
(* Go standard library: bytes, strings, encoding/hex, fmt %x.              *)
(***************************************************************************)
HasPrefix(s, prefix) ==
    Len(s) >= Len(prefix) /\ SubSeq(s, 1, Len(prefix)) = prefix

TrimPrefix(s, prefix) ==
    IF HasPrefix(s, prefix) THEN SubSeq(s, Len(prefix) + 1, Len(s)) ELSE s

RECURSIVE CompareFrom(_, _, _)
CompareFrom(a, b, i) ==
    IF i > Len(a) /\ i > Len(b) THEN 0
    ELSE IF i > Len(a) THEN -1
    ELSE IF i > Len(b) THEN 1
    ELSE IF a[i] < b[i] THEN -1
    ELSE IF a[i] > b[i] THEN 1
    ELSE CompareFrom(a, b, i + 1)

\* bytes.Compare: lexicographic, a proper prefix sorts first.
BytesCompare(a, b) == CompareFrom(a, b, 1)

\* "0123456789abcdef"
hextable == <<48, 49, 50, 51, 52, 53, 54, 55, 56, 57, 97, 98, 99, 100, 101, 102>>

\* hex.EncodeToString / fmt's %x of a byte slice: two lowercase digits per byte.
HexEncode(b) ==
    [k \in 1..(2 * Len(b)) |->
        IF k % 2 = 1 THEN hextable[(b[(k + 1) \div 2] \div 16) + 1]
                     ELSE hextable[(b[k \div 2] % 16) + 1]]

\* encoding/hex fromHexChar: the digit's value, -1 for a byte that is no digit.
fromHexChar(c) ==
    IF c >= 48 /\ c <= 57 THEN c - 48
    ELSE IF c >= 97 /\ c <= 102 THEN c - 97 + 10
    ELSE IF c >= 65 /\ c <= 70 THEN c - 65 + 10
    ELSE -1

\* hex.DecodeString, error dropped (common.Hex2Bytes): the bytes decoded before
\* the first invalid digit; a trailing odd digit is dropped.
RECURSIVE HexDecodeFrom(_, _)
HexDecodeFrom(str, j) ==
    IF j > Len(str) THEN <<>>
    ELSE IF fromHexChar(str[j - 1]) < 0 \/ fromHexChar(str[j]) < 0 THEN <<>>
    ELSE <<fromHexChar(str[j - 1]) * 16 + fromHexChar(str[j])>> \o HexDecodeFrom(str, j + 2)

Hex2Bytes(str) == HexDecodeFrom(str, 2)

(***************************************************************************)
(* go-ethereum common: hex addresses.                                      *)
(***************************************************************************)
has0xPrefix(str) ==
    Len(str) >= 2 /\ str[1] = 48 /\ (str[2] = 120 \/ str[2] = 88)

isHexCharacter(c) ==
    (c >= 48 /\ c <= 57) \/ (c >= 97 /\ c <= 102) \/ (c >= 65 /\ c <= 70)

isHex(str) ==
    Len(str) % 2 = 0 /\ \A i \in 1..Len(str) : isHexCharacter(str[i])

\* common.IsHexAddress: the "0x"/"0X" prefix is optional.
IsHexAddress(s) ==
    LET t == IF has0xPrefix(s) THEN SubSeq(s, 3, Len(s)) ELSE s
    IN  Len(t) = 2 * AddressLength /\ isHex(t)

FromHex(s) ==
    LET t == IF has0xPrefix(s) THEN SubSeq(s, 3, Len(s)) ELSE s
        u == IF Len(t) % 2 = 1 THEN <<48>> \o t ELSE t
    IN  Hex2Bytes(u)

\* common.BytesToAddress: crops from the left, pads with zeros on the left.
BytesToAddress(b) ==
    IF Len(b) > AddressLength
    THEN SubSeq(b, Len(b) - AddressLength + 1, Len(b))
    ELSE [k \in 1..(AddressLength - Len(b)) |-> 0] \o b

HexToAddress(s) == BytesToAddress(FromHex(s))

RECURSIVE WeightedSum(_, _)
WeightedSum(data, j) ==
    IF j = 0 THEN 0 ELSE data[j] * j + WeightedSum(data, j - 1)

\* The digest Address.Hex() takes of the 40 lowercase digits.  Keccak-256 is
\* replaced by a deterministic stand-in with the same shape (32 bytes, each a
\* function of the whole input); only the letter casing of Hex() reads it.
Keccak256(data) ==
    LET w == WeightedSum(data, Len(data))
    IN  [k \in 1..32 |-> (w * (2 * k + 1) + 37 * k * k + data[k]) % 256]

\* common.Address.Hex() (checksumHex): "0x", the lowercase digits, then each
\* letter upper-cased where the digest's nibble at its place exceeds 7.
Hex(a) ==
    LET lower == HexEncode(a)
        hash  == Keccak256(lower)
        nib(i) == IF i % 2 = 1 THEN hash[(i + 1) \div 2] \div 16
                               ELSE hash[i \div 2] % 16
    IN  <<48, 120>> \o
        [i \in 1..Len(lower) |->
            IF lower[i] > 57 /\ nib(i) > 7 THEN lower[i] - 32 ELSE lower[i]]

(***************************************************************************)
(* EthAddrLessThan, ValidateEthAddress                                     *)
(***************************************************************************)
EthAddrLessThan_LessOrEqual(e, o) == BytesCompare(e, o) # 1

EthAddrLessThan(e, o) == BytesCompare(e, o) = -1

ValidateEthAddress_NoEmptyCheck(address) ==
    IF ~IsHexAddress(address) THEN "MalformedAddress" ELSE "nil"

\* The error kinds: "empty Ethereum address" is EmptyAddress, "%s is not a
\* valid Ethereum address" is MalformedAddress.
ValidateEthAddress(address) ==
    IF address = <<>> THEN "EmptyAddress"
    ELSE IF ~IsHexAddress(address) THEN "MalformedAddress"
    ELSE "nil"

(***************************************************************************)
(* PeggyDenom                                                              *)
(***************************************************************************)
\* The zero common.Address{} returned beside an error.
ZeroAddress == [k \in 1..AddressLength |-> 0]

\* errors.Errorf("denom '%x' byte prefix not equal to expected '%x'", p, fullPrefix)
PrefixErrorText(b, fullPrefix) ==
    <<100, 101, 110, 111, 109, 32, 39>> \o HexEncode(b) \o
    <<39, 32, 98, 121, 116, 101, 32, 112, 114, 101, 102, 105, 120, 32, 110, 111,
      116, 32, 101, 113, 117, 97, 108, 32, 116, 111, 32, 101, 120, 112, 101, 99,
      116, 101, 100, 32, 39>> \o HexEncode(fullPrefix) \o <<39>>

\* errors.Errorf("failed to validate Ethereum address bytes: %x", addressBytes)
LengthErrorText(addressBytes) ==
    <<102, 97, 105, 108, 101, 100, 32, 116, 111, 32, 118, 97, 108, 105, 100, 97,
      116, 101, 32, 69, 116, 104, 101, 114, 101, 117, 109, 32, 97, 100, 100, 114,
      101, 115, 115, 32, 98, 121, 116, 101, 115, 58, 32>> \o HexEncode(addressBytes)

TokenContract_ShortOnly(b) ==
    LET fullPrefix == PeggyDenomPrefix \o PeggyDenomSeparator
        addressBytes == TrimPrefix(b, fullPrefix)
    IN  IF ~HasPrefix(b, fullPrefix)
        THEN [err |-> "PrefixMismatch", msg |-> PrefixErrorText(b, fullPrefix),
              val |-> ZeroAddress]
        ELSE IF Len(addressBytes) < ETHContractAddressLen
        THEN [err |-> "BadAddressLength", msg |-> LengthErrorText(addressBytes),
              val |-> ZeroAddress]
        ELSE [err |-> "nil", msg |-> <<>>, val |-> BytesToAddress(addressBytes)]

\* PeggyDenom.TokenContract of the denom bytes b: (address, error).
TokenContract(b) ==
    LET fullPrefix == PeggyDenomPrefix \o PeggyDenomSeparator
        addressBytes == TrimPrefix(b, fullPrefix)
    IN  IF ~HasPrefix(b, fullPrefix)
        THEN [err |-> "PrefixMismatch", msg |-> PrefixErrorText(b, fullPrefix),
              val |-> ZeroAddress]
        ELSE IF Len(addressBytes) # ETHContractAddressLen
        THEN [err |-> "BadAddressLength", msg |-> LengthErrorText(addressBytes),
              val |-> ZeroAddress]
        ELSE [err |-> "nil", msg |-> <<>>, val |-> BytesToAddress(addressBytes)]

PeggyDenomString(tokenContract) ==
    PeggyDenomPrefix \o PeggyDenomSeparator \o Hex(tokenContract)

NewPeggyDenom_HexDigits(tokenContract) ==
    PeggyDenomPrefix \o PeggyDenomSeparator \o Hex(tokenContract)

NewPeggyDenom(tokenContract) ==
    PeggyDenomPrefix \o PeggyDenomSeparator \o tokenContract

\* PeggyDenom.String(): never fails; "%x(error: %s)" of the bytes and the
\* error's text when the bytes do not decode.
String(b) ==
    LET r == TokenContract(b)
    IN  IF r.err # "nil"
        THEN HexEncode(b) \o <<40, 101, 114, 114, 111, 114, 58, 32>> \o r.msg \o <<41>>
        ELSE PeggyDenomString(r.val)

NewPeggyDenomFromString_RawString(denom) ==
    LET fullPrefix == PeggyDenomPrefix \o PeggyDenomSeparator
        addressHex == TrimPrefix(denom, fullPrefix)
    IN  IF ~HasPrefix(denom, fullPrefix)
        THEN [err |-> "PrefixMismatch", val |-> <<>>]
        ELSE IF ValidateEthAddress(addressHex) # "nil"
        THEN [err |-> ValidateEthAddress(addressHex), val |-> <<>>]
        ELSE [err |-> "nil", val |-> denom]

\* NewPeggyDenomFromString: (PeggyDenom, error); a nil PeggyDenom is <<>>.
NewPeggyDenomFromString(denom) ==
    LET fullPrefix == PeggyDenomPrefix \o PeggyDenomSeparator
        addressHex == TrimPrefix(denom, fullPrefix)
    IN  IF ~HasPrefix(denom, fullPrefix)
        THEN [err |-> "PrefixMismatch", val |-> <<>>]
        ELSE IF ValidateEthAddress(addressHex) # "nil"
        THEN [err |-> ValidateEthAddress(addressHex), val |-> <<>>]
        ELSE [err |-> "nil", val |-> NewPeggyDenom(HexToAddress(addressHex))]

(***************************************************************************)
(* math/big and sdk.Int.  A magnitude (big.nat) is a little-endian         *)
(* sequence of limbs below LimbBase with no leading zero limb; zero is     *)
(* <<>>.  A big.Int is [neg, abs].                                         *)
(***************************************************************************)
LimbBase == 256 * 256

\* the bits of a limb
LimbBits == CHOOSE n \in 1..31 : 2^n = LimbBase

limb(x, i) == IF i <= Len(x) THEN x[i] ELSE 0

RECURSIVE natNorm(_)
natNorm(x) ==
    IF x = <<>> THEN <<>>
    ELSE IF x[Len(x)] = 0 THEN natNorm(SubSeq(x, 1, Len(x) - 1))
    ELSE x

RECURSIVE natAddFrom(_, _, _, _)
natAddFrom(x, y, i, carry) ==
    IF i > Len(x) /\ i > Len(y)
    THEN (IF carry = 0 THEN <<>> ELSE <<carry>>)
    ELSE LET s == limb(x, i) + limb(y, i) + carry
         IN  <<s % LimbBase>> \o natAddFrom(x, y, i + 1, s \div LimbBase)

natAdd(x, y) == natAddFrom(x, y, 1, 0)

RECURSIVE natSubFrom(_, _, _, _)
natSubFrom(x, y, i, borrow) ==
    IF i > Len(x) THEN <<>>
    ELSE LET d == x[i] - limb(y, i) - borrow
         IN  <<IF d < 0 THEN d + LimbBase ELSE d>>
             \o natSubFrom(x, y, i + 1, IF d < 0 THEN 1 ELSE 0)

\* x - y for x >= y
natSub(x, y) == natNorm(natSubFrom(x, y, 1, 0))

RECURSIVE natCmpFrom(_, _, _)
natCmpFrom(x, y, i) ==
    IF i = 0 THEN 0
    ELSE IF x[i] < y[i] THEN -1
    ELSE IF x[i] > y[i] THEN 1
    ELSE natCmpFrom(x, y, i - 1)

natCmp(x, y) ==
    IF Len(x) < Len(y) THEN -1
    ELSE IF Len(x) > Len(y) THEN 1
    ELSE natCmpFrom(x, y, Len(x))

natBitLen(x) ==
    IF x = <<>> THEN 0
    ELSE (Len(x) - 1) * LimbBits
         + (CHOOSE n \in 1..LimbBits : 2^(n - 1) <= x[Len(x)] /\ x[Len(x)] < 2^n)

\* big.Int.Add
bigAdd(x, y) ==
    LET z == IF x.neg = y.neg
             THEN [neg |-> x.neg, abs |-> natAdd(x.abs, y.abs)]
             ELSE IF natCmp(x.abs, y.abs) >= 0
             THEN [neg |-> x.neg, abs |-> natSub(x.abs, y.abs)]
             ELSE [neg |-> ~x.neg, abs |-> natSub(y.abs, x.abs)]
    IN  [neg |-> z.neg /\ Len(z.abs) > 0, abs |-> z.abs]

\* big.Int.IsUint64
IsUint64(x) == ~x.neg /\ natBitLen(x.abs) <= 64

\* sdk.Int is a big.Int of at most maxBitLen bits (cosmos-sdk types/int.go).
maxBitLen == 255

\* sdk.Int.Add: panics ("Int overflow") when the sum has more than maxBitLen bits.
IntAdd(i, i2) ==
    LET res == bigAdd(i, i2)
    IN  [panic |-> natBitLen(res.abs) > maxBitLen, val |-> res]

\* sdk.NewIntFromUint64 of a uint64 (a magnitude of at most 64 bits)
NewIntFromUint64(n) == [neg |-> FALSE, abs |-> n]

IsNegative(i) == i.neg

\* sdk.Int.IsPositive: Sign() == 1
IsPositive(i) == ~i.neg /\ Len(i.abs) > 0

(***************************************************************************)
(* sdk.Coin                                                                *)
(***************************************************************************)
\* sdk.ValidateDenom: the denom matches [a-zA-Z][a-zA-Z0-9/:._-]{2,127}
ValidateDenom(denom) ==
    LET letter(c) == (c >= 97 /\ c <= 122) \/ (c >= 65 /\ c <= 90)
        digit(c)  == c >= 48 /\ c <= 57
    IN  /\ Len(denom) >= 3
        /\ Len(denom) <= 128
        /\ letter(denom[1])
        /\ \A k \in 2..Len(denom) :
              letter(denom[k]) \/ digit(denom[k]) \/ denom[k] \in {47, 58, 46, 95, 45}

\* Coin.Validate() == nil
CoinIsValid(coin) == ValidateDenom(coin.Denom) /\ ~IsNegative(coin.Amount)

\* sdk.NewCoin: panics when the coin does not validate.
NewCoin(denom, amount) ==
    LET coin == [Denom |-> denom, Amount |-> amount]
    IN  IF CoinIsValid(coin) THEN [err |-> "nil", val |-> <<coin>>]
                             ELSE [err |-> "panic", val |-> <<>>]

(***************************************************************************)
(* ERC20Token: [Amount: sdk.Int, Contract: string].  A returned *ERC20Token *)
(* is <<token>>, nil is <<>>.  A call that panics returns err "panic".     *)
(***************************************************************************)
NewERC20Token(amount, contract) ==
    [Amount |-> NewIntFromUint64(amount), Contract |-> Hex(contract)]

NewSDKIntERC20Token(amount, contract) ==
    [Amount |-> amount, Contract |-> Hex(contract)]

PeggyCoin(e) ==
    NewCoin(PeggyDenomString(HexToAddress(e.Contract)), e.Amount)

\* ValidateBasic: the wrapped ValidateEthAddress error is InvalidAddress,
\* ErrInvalidCoins is InvalidAmount.
ValidateBasic(e) ==
    IF ValidateEthAddress(e.Contract) # "nil" THEN "InvalidAddress"
    ELSE IF PeggyCoin(e).err = "panic" THEN "panic"
    ELSE IF ~CoinIsValid(PeggyCoin(e).val[1]) THEN "InvalidAmount"
    ELSE IF ~IsPositive(PeggyCoin(e).val[1].Amount) THEN "InvalidAmount"
    ELSE "nil"

Add_ReceiverAmount(e, o) ==
    IF e.Contract # o.Contract THEN [err |-> "MismatchedContract", val |-> <<>>]
    ELSE LET sum == IntAdd(e.Amount, o.Amount)
         IN  IF sum.panic THEN [err |-> "panic", val |-> <<>>]
             ELSE IF ~IsUint64(sum.val) THEN [err |-> "AmountOverflow", val |-> <<>>]
             ELSE [err |-> "nil",
                   val |-> <<NewERC20Token(e.Amount.abs, HexToAddress(e.Contract))>>]

\* Add: "invalid contract address" is MismatchedContract, "invalid amount" is
\* AmountOverflow.  sum.Uint64() of a sum that IsUint64 is its magnitude.
Add(e, o) ==
    IF e.Contract # o.Contract THEN [err |-> "MismatchedContract", val |-> <<>>]
    ELSE LET sum == IntAdd(e.Amount, o.Amount)
         IN  IF sum.panic THEN [err |-> "panic", val |-> <<>>]
             ELSE IF ~IsUint64(sum.val) THEN [err |-> "AmountOverflow", val |-> <<>>]
             ELSE [err |-> "nil",
                   val |-> <<NewERC20Token(sum.val.abs, HexToAddress(e.Contract))>>]

(***************************************************************************)
(* Inputs                                                                  *)
(***************************************************************************)
\* n bytes, all f but byte i, which is c.
Pattern(n, f, i, c) == [k \in 1..n |-> IF k = i THEN c ELSE f]

\* 20-byte contract addresses.
AddressInputs ==
    {Pattern(AddressLength, f, i, c) :
        f \in {0, 171, 255}, i \in {1, AddressLength}, c \in {0, 1, 222}}

\* "0x", "0X", no prefix, "x0"
HexPrefixInputs == {<<48, 120>>, <<48, 88>>, <<>>, <<120, 48>>}

\* Strings handed to ValidateEthAddress: around 40 digits of '0', 'a' or 'F',
\* one of them replaced by '9', 'b', 'B', 'g' or 'x', behind each prefix; the
\* empty string and "not-an-address".
HexStringInputs ==
    {pre \o Pattern(n, f, i, c) :
        pre \in HexPrefixInputs,
        n \in (2 * AddressLength - MaxSlack)..(2 * AddressLength + MaxSlack),
        f \in {48, 97, 70},
        i \in {1, 2, 2 * AddressLength},
        c \in {57, 98, 66, 103, 120}}
    \cup {<<>>, <<110, 111, 116, 45, 97, 110, 45, 97, 100, 100, 114, 101, 115, 115>>}

\* Byte strings handed to EthAddrLessThan: every prefix of a few short strings,
\* and some addresses.
OrderInputs ==
    {SubSeq(x, 1, n) :
        x \in {Pattern(2 + MaxSlack, f, 2, c) : f \in {1, 255}, c \in {0, 2}},
        n \in 0..(2 + MaxSlack)}
    \cup {Pattern(AddressLength, f, AddressLength, c) : f \in {0, 171}, c \in {0, 222}}

\* "peggy", "pegg", "", "Peggy", "peggz"
DenomPrefixInputs ==
    {PeggyDenomPrefix \o PeggyDenomSeparator, <<112, 101, 103, 103>>, <<>>,
     <<80, 101, 103, 103, 121>>, <<112, 101, 103, 103, 122>>}

\* Raw bytes cast to PeggyDenom: each prefix followed by about 20 bytes.
DenomBytesInputs ==
    {pre \o Pattern(n, f, 1, c) :
        pre \in DenomPrefixInputs,
        n \in (ETHContractAddressLen - MaxSlack)..(ETHContractAddressLen + MaxSlack),
        f \in {0, 255},
        c \in {0, 121, 171}}
    \cup {SubSeq(PeggyDenomPrefix, 1, n) : n \in 0..Len(PeggyDenomPrefix)}

\* Strings handed to NewPeggyDenomFromString.
DenomStringInputs ==
    {pre \o s : pre \in DenomPrefixInputs, s \in HexStringInputs}
    \cup {PeggyDenomString(a) : a \in AddressInputs}

\* Magnitudes: 2^k, and n below LimbBase.
Pow2(k) ==
    [i \in 1..(k \div LimbBits + 1) |->
        IF i = k \div LimbBits + 1 THEN 2^(k % LimbBits) ELSE 0]

Small(n) == IF n = 0 THEN <<>> ELSE <<n>>

\* 0..MaxSmall, 5, 7, 2^63, the amounts around 2^64, 2^254 and 2^255 - 1 (the
\* largest sdk.Int).
NatInputs ==
    {Small(n) : n \in 0..MaxSmall} \cup {Small(5), Small(7)}
    \cup {natSub(Pow2(64), Small(d)) : d \in 1..MaxDelta}
    \cup {natAdd(Pow2(64), Small(d)) : d \in 0..(MaxDelta - 1)}
    \cup {Pow2(63), Pow2(254), natSub(Pow2(255), Small(1))}

Uint64Inputs == {n \in NatInputs : natBitLen(n) <= 64}

IntInputs ==
    {[neg |-> FALSE, abs |-> n] : n \in NatInputs}
    \cup {[neg |-> TRUE, abs |-> n] : n \in {Small(1), Small(5), Pow2(64)}}

\* 0xabab...abde and 0x0000...0001
TokenAddressInputs ==
    {Pattern(AddressLength, 171, AddressLength, 222), Pattern(AddressLength, 0, AddressLength, 1)}

ToLower(s) == [k \in 1..Len(s) |-> IF s[k] >= 65 /\ s[k] <= 90 THEN s[k] + 32 ELSE s[k]]

\* Contract strings of tokens decoded from a message: the canonical hex of an
\* address, the same in lower case, without "0x", the empty string and
\* "not-an-address".
ContractInputs ==
    {Hex(a) : a \in TokenAddressInputs}
    \cup {ToLower(Hex(a)) : a \in TokenAddressInputs}
    \cup {SubSeq(ToLower(Hex(a)), 3, 2 + 2 * AddressLength) : a \in {Pattern(AddressLength, 171, AddressLength, 222)}}
    \cup {<<>>, <<110, 111, 116, 45, 97, 110, 45, 97, 100, 100, 114, 101, 115, 115>>}

\* The tokens a caller may hold: built by NewERC20Token, by
\* NewSDKIntERC20Token, or decoded with any Amount and Contract.
TokenInputs ==
    {NewERC20Token(n, a) : n \in Uint64Inputs, a \in TokenAddressInputs}
    \cup {NewSDKIntERC20Token(i, a) : i \in IntInputs, a \in TokenAddressInputs}
    \cup {[Amount |-> i, Contract |-> c] : i \in IntInputs, c \in ContractInputs}

(***************************************************************************)
(* The address helpers.  arg holds the arguments the caller has at hand,   *)
(* op the function called last, ret what it returned.                      *)
(***************************************************************************)
NoDenom == [by |-> "none", src |-> <<>>, err |-> "nil"]

InitTokens ==
    /\ tokenE = [Amount |-> [neg |-> FALSE, abs |-> <<>>], Contract |-> <<>>]
    /\ tokenO = [Amount |-> [neg |-> FALSE, abs |-> <<>>], Contract |-> <<>>]

Init ==
    /\ op = "init"
    /\ arg \in {[kind |-> "string", address |-> s] : s \in HexStringInputs}
               \cup {[kind |-> "order", a |-> a, b |-> b, c |-> c] :
                        a \in OrderInputs, b \in OrderInputs, c \in OrderInputs}
    /\ ret = [err |-> "nil"]
    /\ p = <<>>
    /\ origin = NoDenom
    /\ InitTokens

ValidateEthAddressCall ==
    /\ arg.kind = "string"
    /\ op' = "ValidateEthAddress"
    /\ ret' = [err |-> ValidateEthAddress(arg.address)]
    /\ UNCHANGED <<arg, p, origin, tokenE, tokenO>>

\* A caller ordering three byte strings a, b, c with EthAddrLessThan.
EthAddrLessThanCall ==
    /\ arg.kind = "order"
    /\ op' = "EthAddrLessThan"
    /\ ret' = [err |-> "nil",
               aa |-> EthAddrLessThan(arg.a, arg.a),
               ab |-> EthAddrLessThan(arg.a, arg.b),
               ba |-> EthAddrLessThan(arg.b, arg.a),
               bc |-> EthAddrLessThan(arg.b, arg.c),
               ac |-> EthAddrLessThan(arg.a, arg.c)]
    /\ UNCHANGED <<arg, p, origin, tokenE, tokenO>>

Next == ValidateEthAddressCall \/ EthAddrLessThanCall

Spec == Init /\ [][Next]_vars

(***************************************************************************)
(* The PeggyDenom codec: p is the PeggyDenom the caller holds, origin how  *)
(* it was made from arg.                                                   *)
(***************************************************************************)
InitDenom ==
    /\ op = "init"
    /\ arg \in {[kind |-> "address", val |-> a] : a \in AddressInputs}
               \cup {[kind |-> "bytes", val |-> b] : b \in DenomBytesInputs}
               \cup {[kind |-> "string", val |-> s] : s \in DenomStringInputs}
    /\ ret = [err |-> "nil"]
    /\ p = <<>>
    /\ origin = NoDenom
    /\ InitTokens

NewPeggyDenomCall ==
    /\ arg.kind = "address"
    /\ p' = NewPeggyDenom(arg.val)
    /\ origin' = [by |-> "NewPeggyDenom", src |-> arg.val, err |-> "nil"]
    /\ op' = "NewPeggyDenom"
    /\ ret' = [err |-> "nil"]
    /\ UNCHANGED <<arg, tokenE, tokenO>>

\* The conversion PeggyDenom(b) of bytes read from storage or the wire.
PeggyDenomCast ==
    /\ arg.kind = "bytes"
    /\ p' = arg.val
    /\ origin' = [by |-> "PeggyDenom", src |-> arg.val, err |-> "nil"]
    /\ op' = "PeggyDenom"
    /\ ret' = [err |-> "nil"]
    /\ UNCHANGED <<arg, tokenE, tokenO>>

NewPeggyDenomFromStringCall ==
    /\ arg.kind = "string"
    /\ LET r == NewPeggyDenomFromString(arg.val)
       IN  /\ p' = r.val
           /\ origin' = [by |-> "NewPeggyDenomFromString", src |-> arg.val, err |-> r.err]
           /\ ret' = r
    /\ op' = "NewPeggyDenomFromString"
    /\ UNCHANGED <<arg, tokenE, tokenO>>

TokenContractCall ==
    /\ op' = "TokenContract"
    /\ ret' = TokenContract(p)
    /\ UNCHANGED <<arg, p, origin, tokenE, tokenO>>

StringCall ==
    /\ op' = "String"
    /\ ret' = [err |-> "nil", val |-> String(p)]
    /\ UNCHANGED <<arg, p, origin, tokenE, tokenO>>

NextDenom ==
    \/ NewPeggyDenomCall
    \/ PeggyDenomCast
    \/ NewPeggyDenomFromStringCall
    \/ TokenContractCall
    \/ StringCall

SpecDenom == InitDenom /\ [][NextDenom]_vars

(***************************************************************************)
(* ERC20Token: tokenE and tokenO are the tokens the caller holds (e and o  *)
(* of e.Add(o)); arg is the pair as it was when the method was called.     *)
(***************************************************************************)
InitToken ==
    /\ op = "init"
    /\ arg = <<>>
    /\ ret = [err |-> "nil"]
    /\ p = <<>>
    /\ origin = NoDenom
    /\ tokenE \in TokenInputs
    /\ tokenO \in TokenInputs

PeggyCoinCall ==
    /\ op' = "PeggyCoin"
    /\ arg' = <<tokenE, tokenO>>
    /\ ret' = PeggyCoin(tokenE)
    /\ UNCHANGED <<p, origin, tokenE, tokenO>>

ValidateBasicCall ==
    /\ op' = "ValidateBasic"
    /\ arg' = <<tokenE, tokenO>>
    /\ ret' = [err |-> ValidateBasic(tokenE)]
    /\ UNCHANGED <<p, origin, tokenE, tokenO>>

AddCall ==
    /\ op' = "Add"
    /\ arg' = <<tokenE, tokenO>>
    /\ ret' = Add(tokenE, tokenO)
    /\ UNCHANGED <<p, origin, tokenE, tokenO>>

NextToken == PeggyCoinCall \/ ValidateBasicCall \/ AddCall

SpecToken == InitToken /\ [][NextToken]_vars

(***************************************************************************)
(* The claims.  What a claim says of an input is spelled out here from the *)
(* bytes, apart from the functions above.                                  *)
(***************************************************************************)
FullPrefix == PeggyDenomPrefix \o PeggyDenomSeparator

StartsWithFullPrefix(b) ==
    Len(b) >= Len(FullPrefix) /\ \A k \in 1..Len(FullPrefix) : b[k] = FullPrefix[k]

AfterFullPrefix(b) == SubSeq(b, Len(FullPrefix) + 1, Len(b))

IsHexDigit(c) == c \in (48..57) \cup (97..102) \cup (65..70)

DigitValue(c) ==
    IF c \in 48..57 THEN c - 48 ELSE IF c \in 97..102 THEN c - 87 ELSE c - 55

\* "0x" followed by 40 hex digits
Canonical0xForm(s) ==
    /\ Len(s) = 2 + 2 * ETHContractAddressLen
    /\ s[1] = 48
    /\ s[2] = 120
    /\ \A k \in 3..Len(s) : IsHexDigit(s[k])

\* s without one leading "0x" or "0X"
Digits(s) ==
    IF Len(s) >= 2 /\ s[1] = 48 /\ s[2] \in {120, 88} THEN SubSeq(s, 3, Len(s)) ELSE s

\* 40 hex digits behind an optional "0x" or "0X"
FortyHexDigits(s) ==
    /\ Len(Digits(s)) = 2 * ETHContractAddressLen
    /\ \A k \in 1..Len(Digits(s)) : IsHexDigit(Digits(s)[k])

\* the 20 bytes the digits of s spell, in either letter case
DenotedAddress(s) ==
    [k \in 1..ETHContractAddressLen |->
        DigitValue(Digits(s)[2 * k - 1]) * 16 + DigitValue(Digits(s)[2 * k])]

ToUpper(s) == [k \in 1..Len(s) |-> IF s[k] >= 97 /\ s[k] <= 122 THEN s[k] - 32 ELSE s[k]]

EqualFold(a, b) == Len(a) = Len(b) /\ ToLower(a) = ToLower(b)

\* C1: byte-form round trip: for every 20-byte contract address a,
\* NewPeggyDenom(a).TokenContract() returns no error and exactly a.
C1_ByteRoundTrip ==
    (op = "TokenContract" /\ origin.by = "NewPeggyDenom") =>
        /\ ret.err = "nil"
        /\ ret.val = origin.src

\* C1 witness: a decode of NewPeggyDenom(a), a not all one byte, returned a.
C1_Witness ==
    /\ op = "TokenContract"
    /\ origin.by = "NewPeggyDenom"
    /\ origin.src # ZeroAddress
    /\ origin.src[1] # origin.src[AddressLength]
    /\ ret.err = "nil"
    /\ ret.val = origin.src

\* C7: TokenContract succeeds only on bytes that start with the full prefix and
\* have length PeggyDenomLen, and then returns the 20 bytes behind the prefix;
\* bytes that do not start with the prefix (shorter ones too) fail with
\* PrefixMismatch whatever their length; prefixed bytes with a remainder of
\* other than 20 bytes fail with BadAddressLength.
C7_DecodeRejection ==
    op = "TokenContract" =>
        /\ ret.err = "nil" =>
              /\ StartsWithFullPrefix(p)
              /\ Len(p) = PeggyDenomLen
              /\ ret.val = AfterFullPrefix(p)
        /\ ~StartsWithFullPrefix(p) => ret.err = "PrefixMismatch"
        /\ (StartsWithFullPrefix(p) /\ Len(AfterFullPrefix(p)) # ETHContractAddressLen)
              => ret.err = "BadAddressLength"

\* C7 witness: prefixed bytes with 21 trailing bytes were rejected with
\* BadAddressLength.
C7_Witness ==
    /\ op = "TokenContract"
    /\ StartsWithFullPrefix(p)
    /\ Len(AfterFullPrefix(p)) = ETHContractAddressLen + 1
    /\ ret.err = "BadAddressLength"

\* C8: for every valid hex address string s (any letter case) the call
\* NewPeggyDenomFromString(PREFIX+SEPARATOR+s) succeeds and returns the bytes
\* NewPeggyDenom gives for the address s denotes; the same bytes come from s in
\* lower and in upper case; String() of the result is PREFIX+SEPARATOR+"0x" and
\* the digits of s in the case Hex() gives them; TokenContract() of the result
\* is the address s denotes.
C8_StringRoundTrip ==
    (/\ origin.by = "NewPeggyDenomFromString"
     /\ StartsWithFullPrefix(origin.src)
     /\ FortyHexDigits(AfterFullPrefix(origin.src))) =>
        LET s == AfterFullPrefix(origin.src)
        IN  /\ origin.err = "nil"
            /\ p = NewPeggyDenom(DenotedAddress(s))
            /\ p = FullPrefix \o DenotedAddress(s)
            /\ NewPeggyDenomFromString(FullPrefix \o ToLower(s)) = [err |-> "nil", val |-> p]
            /\ NewPeggyDenomFromString(FullPrefix \o ToUpper(s)) = [err |-> "nil", val |-> p]
            /\ op = "String" =>
                  /\ ret.val = PeggyDenomString(DenotedAddress(s))
                  /\ SubSeq(ret.val, 1, Len(FullPrefix) + 2) = FullPrefix \o <<48, 120>>
                  /\ EqualFold(Digits(AfterFullPrefix(ret.val)), Digits(s))
            /\ op = "TokenContract" =>
                  /\ ret.err = "nil"
                  /\ ret.val = DenotedAddress(s)

\* C8 witness: a denom built from "0x" + 40 digits not in canonical case was
\* rendered, in another letter case than the input.
C8_Witness ==
    /\ op = "String"
    /\ origin.by = "NewPeggyDenomFromString"
    /\ origin.err = "nil"
    /\ Canonical0xForm(AfterFullPrefix(origin.src))
    /\ ret.val # origin.src
    /\ EqualFold(ret.val, origin.src)

\* C9: EthAddrLessThan is a strict total order: never a < a; for a # b exactly
\* one of a < b and b < a; a < b and b < c give a < c; and for a, b of equal
\* length the first byte that differs decides.
C9_StrictTotalOrder ==
    op = "EthAddrLessThan" =>
        LET a == arg.a
            b == arg.b
            d == CHOOSE k \in 1..Len(a) :
                    a[k] # b[k] /\ \A j \in 1..(k - 1) : a[j] = b[j]
        IN  /\ ~ret.aa
            /\ a # b => (ret.ab # ret.ba)
            /\ a = b => (~ret.ab /\ ~ret.ba)
            /\ (ret.ab /\ ret.bc) => ret.ac
            /\ (Len(a) = Len(b) /\ a # b) => (ret.ab <=> a[d] < b[d])

\* C9 witness: three addresses a < b < c were ordered, a < c among the answers.
C9_Witness ==
    /\ op = "EthAddrLessThan"
    /\ Len(arg.a) = AddressLength
    /\ Len(arg.b) = AddressLength
    /\ ret.ab
    /\ ~ret.ba
    /\ ret.bc
    /\ ret.ac

\* C6 as claimed: ValidateEthAddress(s) fails with EmptyAddress for the empty
\* string, fails with MalformedAddress for every non-empty s that is not "0x"
\* followed by 40 hex digits (wrong length, a non-hex character, a missing or
\* incorrect prefix), and succeeds for "0x" followed by 40 hex digits.
C6_AsClaimed ==
    op = "ValidateEthAddress" =>
        /\ arg.address = <<>> => ret.err = "EmptyAddress"
        /\ (arg.address # <<>> /\ ~Canonical0xForm(arg.address))
              => ret.err = "MalformedAddress"
        /\ Canonical0xForm(arg.address) => ret.err = "nil"

\* C6 (amended): ValidateEthAddress(s) fails with EmptyAddress exactly for the
\* empty string, succeeds exactly when s, without one optional leading "0x" or
\* "0X", is 40 hex digits in any letter case, and fails with MalformedAddress
\* for every other s.
C6_OptionalPrefix ==
    op = "ValidateEthAddress" =>
        /\ ret.err = "EmptyAddress" <=> arg.address = <<>>
        /\ ret.err = "nil" <=> FortyHexDigits(arg.address)
        /\ ret.err = "MalformedAddress" <=>
              (arg.address # <<>> /\ ~FortyHexDigits(arg.address))

\* C6 witness: 40 hex digits without a prefix were validated and accepted.
C6_Witness ==
    /\ op = "ValidateEthAddress"
    /\ Len(arg.address) = 2 * ETHContractAddressLen
    /\ ~Canonical0xForm(arg.address)
    /\ ret.err = "nil"

\* The address a token's Contract denotes, as PeggyCoin and Add read it.
Denotes(token) == HexToAddress(token.Contract)

\* e.Amount + o.Amount as integers
AmountSum(e, o) == bigAdd(e.Amount, o.Amount)

\* 0 <= x <= 2^64 - 1
InUint64Range(x) == ~x.neg /\ natCmp(x.abs, Pow2(64)) < 0

\* C2 as claimed: for e and o with equal Contract fields and a sum of amounts
\* in [0, 2^64-1], e.Add(o) returns a new token whose Amount is exactly
\* e.Amount + o.Amount and whose Contract equals e.Contract and o.Contract, and
\* e and o are as they were.  Stated for tokens whose Contract is "0x" followed
\* by 40 hex digits.
C2_AsClaimed ==
    (/\ op = "Add"
     /\ arg[1].Contract = arg[2].Contract
     /\ Canonical0xForm(arg[1].Contract)
     /\ InUint64Range(AmountSum(arg[1], arg[2]))) =>
        /\ ret.err = "nil"
        /\ Len(ret.val) = 1
        /\ ret.val[1].Amount = AmountSum(arg[1], arg[2])
        /\ ret.val[1].Contract = arg[1].Contract
        /\ ret.val[1].Contract = arg[2].Contract
        /\ tokenE = arg[1]
        /\ tokenO = arg[2]

\* C2 (amended): for e and o with equal Contract fields and a sum of amounts in
\* [0, 2^64-1], e.Add(o) returns a new token whose Amount is exactly
\* e.Amount + o.Amount and whose Contract is the canonical hex (Address.Hex())
\* of the address e.Contract denotes: it denotes the address e and o share, and
\* it equals e.Contract as a string when e was built by NewERC20Token or
\* NewSDKIntERC20Token; e and o are as they were.
C2_AddCanonical ==
    (/\ op = "Add"
     /\ arg[1].Contract = arg[2].Contract
     /\ InUint64Range(AmountSum(arg[1], arg[2]))) =>
        /\ ret.err = "nil"
        /\ Len(ret.val) = 1
        /\ ret.val[1].Amount = AmountSum(arg[1], arg[2])
        /\ ret.val[1].Contract = Hex(Denotes(arg[1]))
        /\ Denotes(ret.val[1]) = Denotes(arg[1])
        /\ Denotes(ret.val[1]) = Denotes(arg[2])
        /\ (\E a \in TokenAddressInputs : arg[1].Contract = Hex(a))
              => ret.val[1].Contract = arg[1].Contract
        /\ tokenE = arg[1]
        /\ tokenO = arg[2]

\* C2 witness: 5 + 7 on one lower-case contract gave 12 on the checksum-cased
\* contract.
C2_Witness ==
    /\ op = "Add"
    /\ arg[1].Amount = [neg |-> FALSE, abs |-> Small(5)]
    /\ arg[2].Amount = [neg |-> FALSE, abs |-> Small(7)]
    /\ arg[1].Contract = arg[2].Contract
    /\ Canonical0xForm(arg[1].Contract)
    /\ ret.err = "nil"
    /\ ret.val[1].Amount = [neg |-> FALSE, abs |-> Small(12)]
    /\ ret.val[1].Contract # arg[1].Contract
    /\ Denotes(ret.val[1]) = Denotes(arg[1])

\* C3: for two tokens with the same Contract and non-negative amounts, e.Add(o)
\* returns AmountOverflow and no token exactly when e.Amount + o.Amount exceeds
\* 2^64-1; a sum of at most 2^64-1 succeeds with exactly that sum, never with
\* the sum reduced modulo 2^64.  Stated for tokens whose Contract is "0x"
\* followed by 40 hex digits.
C3_AddOverflow ==
    (/\ op = "Add"
     /\ arg[1].Contract = arg[2].Contract
     /\ Canonical0xForm(arg[1].Contract)
     /\ ~arg[1].Amount.neg
     /\ ~arg[2].Amount.neg) =>
        /\ InUint64Range(AmountSum(arg[1], arg[2])) =>
              /\ ret.err = "nil"
              /\ Len(ret.val) = 1
              /\ ret.val[1].Amount = AmountSum(arg[1], arg[2])
        /\ ~InUint64Range(AmountSum(arg[1], arg[2])) =>
              /\ ret.err = "AmountOverflow"
              /\ ret.val = <<>>

\* C4: whenever the addresses of e and o differ, e.Add(o) returns
\* MismatchedContract and no token, whatever the amounts; whenever e and o
\* denote the same contract address, Add does not return MismatchedContract.
\* Stated for tokens whose Contract is "0x" followed by 40 hex digits.
C4_ContractMismatch ==
    (/\ op = "Add"
     /\ Canonical0xForm(arg[1].Contract)
     /\ Canonical0xForm(arg[2].Contract)) =>
        /\ Denotes(arg[1]) # Denotes(arg[2]) =>
              /\ ret.err = "MismatchedContract"
              /\ ret.val = <<>>
        /\ Denotes(arg[1]) = Denotes(arg[2]) => ret.err # "MismatchedContract"

\* C5: ValidateBasic returns nil exactly when Contract passes
\* ValidateEthAddress and Amount is strictly positive; it returns
\* InvalidAddress when Contract fails ValidateEthAddress, whatever the amount;
\* and InvalidAmount when the address is valid and the amount is 0 or the
\* derived coin is not valid (a negative amount).  Stated for tokens whose
\* Contract is "0x" followed by 40 hex digits or fails ValidateEthAddress.
C5_ValidationGate ==
    (/\ op = "ValidateBasic"
     /\ Canonical0xForm(arg[1].Contract) \/ ~FortyHexDigits(arg[1].Contract)) =>
        LET e == arg[1]
            addressOk == FortyHexDigits(e.Contract)
            positive == ~e.Amount.neg /\ e.Amount.abs # <<>>
        IN  /\ ret.err = "nil" <=> (addressOk /\ positive)
            /\ ~addressOk => ret.err = "InvalidAddress"
            /\ (addressOk /\ ~positive) => ret.err = "InvalidAmount"

\* A token as NewSDKIntERC20Token builds it from an amount of at most 64 bits.
BuiltFromSmallAmount(token) ==
    /\ \E a \in TokenAddressInputs : token.Contract = Hex(a)
    /\ natBitLen(token.Amount.abs) <= 64

\* C10: no operation raises: ValidateEthAddress, TokenContract,
\* NewPeggyDenomFromString, PeggyCoin, ValidateBasic and Add end by returning a
\* value or an error value, never by panicking, for every input, tokens with a
\* zero or negative amount included; and String() always returns a string: the
\* bytes in hex followed by "(error: <text>)" when the bytes do not decode, and
\* PeggyDenomString of the decoded address when they do.  For the methods of a
\* token it is stated for tokens built by NewSDKIntERC20Token from an amount,
\* of either sign, of at most 64 bits.
C10_NoOperationRaises ==
    /\ (op \in {"PeggyCoin", "ValidateBasic", "Add"}
          /\ BuiltFromSmallAmount(arg[1]) /\ BuiltFromSmallAmount(arg[2]))
          => ret.err # "panic"
    /\ op \notin {"PeggyCoin", "ValidateBasic", "Add"} => ret.err # "panic"
    /\ op = "String" =>
          IF StartsWithFullPrefix(p) /\ Len(AfterFullPrefix(p)) = ETHContractAddressLen
          THEN ret.val = PeggyDenomString(AfterFullPrefix(p))
          ELSE /\ HasPrefix(ret.val, HexEncode(p) \o <<40, 101, 114, 114, 111, 114, 58, 32>>)
               /\ ret.val[Len(ret.val)] = 41
               /\ ret.val = HexEncode(p) \o <<40, 101, 114, 114, 111, 114, 58, 32>>
                               \o TokenContract(p).msg \o <<41>>

====
